---- MODULE Spec2Model ----
(***************************************************************************)
(* Sales filtering dashboard (streamlit_app.py): one run of the script,    *)
(* load -> normalize -> filter -> aggregate -> summarize.                  *)
(* A DataFrame is a sequence of records (row order is positional order);   *)
(* aggregated rows carry their pandas index label in the field "index".    *)
(***************************************************************************)
EXTENDS Integers, Sequences, FiniteSets

\* ------------------------------------------------------------------------
\* State
\* ------------------------------------------------------------------------
VARIABLES
    locale,          \* LC_ALL after lines 34-37
    url,             \* argument of load_csv_from_onedrive (line 565)
    final_url,       \* line 54
    requests_get,    \* number of calls of requests.get (line 55)
    pc,              \* position of the script
    resp,            \* outcome of the HTTP request: "none", "ok", "raised"
    attempts,        \* encodings tried so far by the loop at line 61, with outcomes
    df,              \* value bound to df in cargar_datos (line 565)
    st_error,        \* number of calls of st.error at line 582
    df_original,     \* line 590
    anio_seleccionado, mes_seleccionado, codigo_seleccionado, clase_seleccionada,
    df_filtrado,     \* lines 626-633
    df_agrupado,     \* lines 639-648
    df_final,        \* lines 651-662
    resumen,         \* total_ventas, fila_max, fila_min (lines 664-676)
    df_agrupados,    \* lines 813-820
    nombre_default   \* lines 838-840

\* ------------------------------------------------------------------------
\* Bounds and input universes
\* ------------------------------------------------------------------------

\* Largest number of rows in the table held by the remote file.
MaxRows == 2

\* Largest number of pieces a URL is put together from.
MaxPieces == 3

\* Python's None (return value of the loader at line 81).
None == [tipo |-> "None"]

\* df before line 565 binds it.
Unbound == [tipo |-> "unbound"]

\* A pd.DataFrame with the rows t.
DataFrame(t) == [tipo |-> "DataFrame", filas |-> t]

\* A missing cell (NaN) of a string column.
NaN == "NaN"

\* encodings, line 59 (in the order of the list)
encodings == <<"latin1", "iso-8859-1", "cp1252", "utf-8">>

\* What pd.read_csv does under one encoding (lines 62-78): returns a frame,
\* raises UnicodeDecodeError, or raises another Exception.
ParseOutcomes == {"ok", "UnicodeDecodeError", "Exception"}

\* What requests.get + raise_for_status do (lines 55-56).
FetchOutcomes == {"ok", "raised"}

\* Strings of the sortable columns, in Python's str order (by code point:
\* upper case before lower case).
StrOrder ==
    << "A", "April", "August", "B", "December", "February", "January",
       "July", "June", "March", "May", "November", "October", "P1",
       "September", "abril", "agosto", "diciembre", "enero", "febrero",
       "julio", "junio", "marzo", "mayo", "noviembre", "octubre",
       "septiembre" >>

StrRank(s) == CHOOSE k \in 1..Len(StrOrder) : StrOrder[k] = s

StrLt(a, b) == StrRank(a) < StrRank(b)

\* Locales the script may run under: line 35 sets es_ES.UTF-8 when the host
\* has it, otherwise line 37 leaves the C locale of the interpreter.
Locales == {"es_ES.UTF-8", "C"}

\* Full month names of the C locale.
MonthsC ==
    << "January", "February", "March", "April", "May", "June", "July",
       "August", "September", "October", "November", "December" >>

\* Full month names of es_ES.UTF-8.
MonthsEs ==
    << "enero", "febrero", "marzo", "abril", "mayo", "junio", "julio",
       "agosto", "septiembre", "octubre", "noviembre", "diciembre" >>

\* Mutant of MonthName: the names do not follow the locale.
MonthNameSiempreC(m) == MonthsC[m]

\* strftime('%B') at line 577 under the locale of the run.
MonthName(m) == IF locale = "es_ES.UTF-8" THEN MonthsEs[m] ELSE MonthsC[m]

\* Date texts of the CSV column FECHA_DOCUMENTO:
\* <<"-", y, m, d>> is the text "y-m-d", <<"/", a, b, y>> the text "a/b/y".
IsoText(y, m, d) == <<"-", y, m, d>>

SlashText(a, b, y) == <<"/", a, b, y>>

\* Raw rows (columns of the CSV / query, lines 535-545).
RawRow(c, n, k, f, q, p, e) ==
    [CODIGO_PRODUCTO |-> c, NOMBRE_PRODUCTO |-> n, CLASE_CLIENTE |-> k,
     FECHA_DOCUMENTO |-> f, CANTIDAD |-> q, PRECIO_TOTAL_ORIG |-> p,
     ESTADO_DOCUMENTO |-> e]

\* Rows that differ on the four filter axes (CLASE_CLIENTE comes from a
\* LEFT JOIN, line 554, and may be missing; FourYearsTable has rows of two
\* classes).
FilterRows ==
    { RawRow(c, "n1", k, f, 1, 1, "s1") :
        c \in {"A", "B"},
        k \in {"Minorista", NaN},
        f \in {IsoText(2023, 4, 5), IsoText(2024, 3, 5)} }

\* First-seen columns (name, status, day) and the two measures (DateRows
\* has the rows of quantity zero).
Variants ==
    { <<"n1", "s1", 5, 1, 1>>, <<"n2", "s2", 20, 1, 1>>,
      <<"n2", "s2", 20, -1, -1>>, <<"n1", "s1", 5, 1, 0>> }

\* Rows of one customer class that fall into the same or different groups.
GroupRows ==
    { RawRow(c, v[1], "Minorista", IsoText(ym[1], ym[2], v[3]), v[4], v[5], v[2]) :
        c \in {"A", "B"},
        ym \in {<<2023, 4>>, <<2024, 3>>},
        v \in Variants }

SeqsUpTo(S, n) == UNION { [1..k -> S] : k \in 0..n }

\* Rows with day/month/year texts: 05/03/2024 reads both ways, 20/03/2024
\* only day first, 03/20/2024 only month first.
DateRows ==
    { RawRow("A", "n1", "Minorista", f, q, 1, "s1") :
        f \in {SlashText(5, 3, 2024), SlashText(20, 3, 2024), SlashText(3, 20, 2024)},
        q \in {0, 1} }

\* The two sales of one product in March 2024 (5 and 20 March).
EndToEndTable ==
    << RawRow("P1", "n1", "Minorista", IsoText(2024, 3, 5), 2, 100, "s1"),
       RawRow("P1", "n1", "Minorista", IsoText(2024, 3, 20), 3, 50, "s1") >>

\* One sale in each of four years and four months, of two products.
FourYearsTable ==
    << RawRow("A", "n1", "Minorista", IsoText(2021, 3, 5), 3, 1, "s1"),
       RawRow("B", "n1", "Minorista", IsoText(2022, 4, 5), 1, 1, "s1"),
       RawRow("A", "n2", "Mayorista", IsoText(2023, 5, 5), 1, 1, "s1"),
       RawRow("B", "n2", "Mayorista", IsoText(2024, 6, 5), 2, 1, "s1") >>

\* Tables the remote file may hold.
Tables ==
    SeqsUpTo(FilterRows, MaxRows) \cup SeqsUpTo(GroupRows, MaxRows)
        \cup SeqsUpTo(DateRows, MaxRows) \cup {EndToEndTable, FourYearsTable}

\* ------------------------------------------------------------------------
\* _ensure_download_param, lines 46-50 (a str is a sequence of characters)
\* ------------------------------------------------------------------------

\* "download=1"
DownloadParam == <<"d", "o", "w", "n", "l", "o", "a", "d", "=", "1">>

\* sub in s
Contains(s, sub) ==
    \E i \in 1..(Len(s) - Len(sub) + 1) : SubSeq(s, i, i + Len(sub) - 1) = sub

\* Mutant of _ensure_download_param: the joiner is always "?".
EnsureSiempreInterrogacion(u) ==
    IF Contains(u, DownloadParam) THEN u ELSE u \o <<"?">> \o DownloadParam

\* Mutant of _ensure_download_param: the parameter is appended even when
\* the URL has it.
EnsureSiempreAgrega(u) ==
    LET joiner == IF Contains(u, <<"?">>) THEN "&" ELSE "?"
    IN  u \o <<joiner>> \o DownloadParam

_ensure_download_param(u) ==
    IF Contains(u, DownloadParam) THEN u
    ELSE LET joiner == IF Contains(u, <<"?">>) THEN "&" ELSE "?"
         IN  u \o <<joiner>> \o DownloadParam

\* Pieces of URLs: a path, the two separators, a parameter, the download
\* parameter whole and in parts, and another value of it.
UrlPieces ==
    { <<"h">>, <<"?">>, <<"&">>, <<"e", "=", "4">>, DownloadParam,
      <<"d", "o", "w", "n", "l", "o", "a", "d", "=">>, <<"1">>, <<"0">> }

RECURSIVE Flatten(_)
Flatten(ps) == IF ps = <<>> THEN <<>> ELSE ps[1] \o Flatten(Tail(ps))

\* The URLs _ensure_download_param is applied to.
Urls == { Flatten(ps) : ps \in SeqsUpTo(UrlPieces, MaxPieces) }

\* The URL passed at line 565, "https://1drv.ms/...?e=4UvUUr", with the
\* part before the query written "h" and the query value cut to "4".
SourceUrl == <<"h", "?", "e", "=", "4">>

\* ------------------------------------------------------------------------
\* DataFrame helpers
\* ------------------------------------------------------------------------

\* A missing datetime (NaT).
NaT == <<0, 0, 0>>

\* df[col] as a sequence of values in row order.
Col(t, c) == [i \in 1..Len(t) |-> t[i][c]]

\* Mutant of Sum: only the first value is counted.
SumSoloPrimero(vals) == IF vals = <<>> THEN 0 ELSE vals[1]

RECURSIVE Sum(_)
\* Series.sum()
Sum(vals) == IF vals = <<>> THEN 0 ELSE vals[1] + Sum(Tail(vals))

\* Mutant of First: the last non-missing value ('last' instead of 'first').
FirstUltimo(vals, missing) ==
    LET present == SelectSeq(vals, LAMBDA v : v # missing)
    IN  IF present = <<>> THEN missing ELSE present[Len(present)]

\* GroupBy 'first': the first non-missing value of the column in row order.
First(vals, missing) ==
    LET present == SelectSeq(vals, LAMBDA v : v # missing)
    IN  IF present = <<>> THEN missing ELSE present[1]

\* ------------------------------------------------------------------------
\* cargar_datos, lines 572-577: drop zero quantities, parse the dates,
\* derive AÑO, MES_NUM, MES
\* ------------------------------------------------------------------------

\* A text that the format does not match.
NoMatch == <<-1, -1, -1>>

\* Format that pandas guesses for one text with dayfirst=False: the first
\* number of a/b/y is the month unless it cannot be one.
GuessFormat(s) ==
    IF s[1] = "-" THEN "%Y-%m-%d"
    ELSE IF s[2] <= 12 THEN "%m/%d/%Y" ELSE "%d/%m/%Y"

\* The date <<year, month, day>> of a text under a format.
Strptime(s, fmt) ==
    IF fmt = "%Y-%m-%d"
    THEN IF s[1] = "-" /\ s[3] \in 1..12 /\ s[4] \in 1..31
         THEN <<s[2], s[3], s[4]>> ELSE NoMatch
    ELSE IF fmt = "%m/%d/%Y"
    THEN IF s[1] = "/" /\ s[2] \in 1..12 /\ s[3] \in 1..31
         THEN <<s[4], s[2], s[3]>> ELSE NoMatch
    ELSE IF s[1] = "/" /\ s[3] \in 1..12 /\ s[2] \in 1..31
         THEN <<s[4], s[3], s[2]>> ELSE NoMatch

\* pd.to_datetime(column) at line 574, without dayfirst. With inferir the
\* format guessed for the first text is used for the whole column
\* (pandas 2 and later); without it every text is parsed on its own
\* (pandas 1).
ToDatetime(textos, inferir) ==
    [i \in 1..Len(textos) |->
        Strptime(textos[i],
                 IF inferir THEN GuessFormat(textos[1]) ELSE GuessFormat(textos[i]))]

\* Mutant of SinCantidadCero: no row is dropped.
SinCantidadCeroTodas(t) == t

\* line 572
SinCantidadCero(t) == SelectSeq(t, LAMBDA r : r.CANTIDAD # 0)

\* to_datetime raises ValueError when a text does not match the format.
FechasValidas(t, inferir) ==
    LET fechas == ToDatetime(Col(SinCantidadCero(t), "FECHA_DOCUMENTO"), inferir)
    IN  \A i \in 1..Len(fechas) : fechas[i] # NoMatch

\* lines 574-577 for one row, fecha being its parsed date
ConColumnasFecha(r, fecha) ==
    [CODIGO_PRODUCTO |-> r.CODIGO_PRODUCTO, NOMBRE_PRODUCTO |-> r.NOMBRE_PRODUCTO,
     CLASE_CLIENTE |-> r.CLASE_CLIENTE, FECHA_DOCUMENTO |-> fecha,
     CANTIDAD |-> r.CANTIDAD, PRECIO_TOTAL_ORIG |-> r.PRECIO_TOTAL_ORIG,
     ESTADO_DOCUMENTO |-> r.ESTADO_DOCUMENTO,
     ANIO |-> fecha[1], MES_NUM |-> fecha[2], MES |-> MonthName(fecha[2])]

Normalizar(t, inferir) ==
    LET sinCero == SinCantidadCero(t)
        fechas == ToDatetime(Col(sinCero, "FECHA_DOCUMENTO"), inferir)
    IN  [i \in 1..Len(sinCero) |-> ConColumnasFecha(sinCero[i], fechas[i])]

\* ------------------------------------------------------------------------
\* Filter options (lines 601-623) and filters (lines 626-633)
\* ------------------------------------------------------------------------
\* df[c].unique() as a set
Unicos(t, c) == { t[i][c] : i \in 1..Len(t) }

\* Mutant of FiltrarCodigo: the code filter is applied even when nothing
\* is selected.
FiltrarCodigoSiempre(t, codigos) ==
    SelectSeq(t, LAMBDA r : r.CODIGO_PRODUCTO \in codigos)

\* lines 630-631
FiltrarCodigo(t, codigos) ==
    IF codigos # {}
    THEN SelectSeq(t, LAMBDA r : r.CODIGO_PRODUCTO \in codigos)
    ELSE t

Filtrar(t, anios, meses, codigos, clases) ==
    LET t1 == SelectSeq(t, LAMBDA r : r.ANIO \in anios)
        t2 == SelectSeq(t1, LAMBDA r : r.MES \in meses)
        t3 == FiltrarCodigo(t2, codigos)
    IN  SelectSeq(t3, LAMBDA r : r.CLASE_CLIENTE \in clases)

\* ------------------------------------------------------------------------
\* Aggregation, lines 639-648
\* ------------------------------------------------------------------------
Clave(r) == <<r.CODIGO_PRODUCTO, r.ANIO, r.MES_NUM, r.MES>>

\* Order of the group keys in the groupby result (sort=True).
ClaveLt(a, b) ==
    \/ StrLt(a[1], b[1])
    \/ a[1] = b[1] /\ a[2] < b[2]
    \/ a[1] = b[1] /\ a[2] = b[2] /\ a[3] < b[3]
    \/ a[1] = b[1] /\ a[2] = b[2] /\ a[3] = b[3] /\ StrLt(a[4], b[4])

RECURSIVE ClavesOrdenadas(_)
ClavesOrdenadas(S) ==
    IF S = {} THEN <<>>
    ELSE LET m == CHOOSE x \in S : \A y \in S \ {x} : ClaveLt(x, y)
         IN  <<m>> \o ClavesOrdenadas(S \ {m})

\* Mutant of Grupo: the rows are grouped by product code alone.
GrupoPorCodigo(t, k) == SelectSeq(t, LAMBDA r : r.CODIGO_PRODUCTO = k[1])

\* Rows of one group, in the row order of the grouped frame.
Grupo(t, k) == SelectSeq(t, LAMBDA r : Clave(r) = k)

\* .agg({...}) for one group; index is the label given by reset_index().
Agg(t, k, label) ==
    LET g == Grupo(t, k)
    IN  [index |-> label,
         CODIGO_PRODUCTO |-> k[1], ANIO |-> k[2], MES_NUM |-> k[3], MES |-> k[4],
         FECHA_DOCUMENTO |-> First(Col(g, "FECHA_DOCUMENTO"), NaT),
         NOMBRE_PRODUCTO |-> First(Col(g, "NOMBRE_PRODUCTO"), NaN),
         CLASE_CLIENTE |-> First(Col(g, "CLASE_CLIENTE"), NaN),
         CANTIDAD |-> Sum(Col(g, "CANTIDAD")),
         PRECIO_TOTAL_ORIG |-> Sum(Col(g, "PRECIO_TOTAL_ORIG")),
         ESTADO_DOCUMENTO |-> First(Col(g, "ESTADO_DOCUMENTO"), NaN)]

\* groupby(...).agg(...).reset_index()
GroupByAgg(t) ==
    LET claves == ClavesOrdenadas({ Clave(t[i]) : i \in 1..Len(t) })
    IN  [j \in 1..Len(claves) |-> Agg(t, claves[j], j - 1)]

\* Row order of sort_values(['AÑO', 'MES_NUM', 'CODIGO_PRODUCTO']).
OrdenLt(a, b) ==
    \/ a.ANIO < b.ANIO
    \/ a.ANIO = b.ANIO /\ a.MES_NUM < b.MES_NUM
    \/ a.ANIO = b.ANIO /\ a.MES_NUM = b.MES_NUM
       /\ StrLt(a.CODIGO_PRODUCTO, b.CODIGO_PRODUCTO)

\* Insert x after every row that is not greater than x (stable).
Insertar(s, x) ==
    LET antes == { i \in 1..Len(s) : \A j \in 1..i : ~OrdenLt(x, s[j]) }
        n == Cardinality(antes)
    IN  SubSeq(s, 1, n) \o <<x>> \o SubSeq(s, n + 1, Len(s))

\* Mutant of SortValues: the groups stay in the order of the group keys.
SortValuesSinOrdenar(t) == t

RECURSIVE SortValues(_)
SortValues(t) ==
    IF t = <<>> THEN <<>>
    ELSE Insertar(SortValues(SubSeq(t, 1, Len(t) - 1)), t[Len(t)])

Agrupar(t) == SortValues(GroupByAgg(t))

\* ------------------------------------------------------------------------
\* Final table, lines 651-662
\* ------------------------------------------------------------------------
ColumnasFinales(r) ==
    [index |-> r.index,
     FECHA_DOCUMENTO |-> r.FECHA_DOCUMENTO, CODIGO_PRODUCTO |-> r.CODIGO_PRODUCTO,
     NOMBRE_PRODUCTO |-> r.NOMBRE_PRODUCTO, CLASE_CLIENTE |-> r.CLASE_CLIENTE,
     CANTIDAD |-> r.CANTIDAD, PRECIO_TOTAL_ORIG |-> r.PRECIO_TOTAL_ORIG,
     ESTADO_DOCUMENTO |-> r.ESTADO_DOCUMENTO]

\* Mutant of SinCeros: line 662 is missing.
SinCerosSoloCantidad(t) == SelectSeq(t, LAMBDA r : r.CANTIDAD # 0)

\* lines 661-662
SinCeros(t) ==
    LET t1 == SelectSeq(t, LAMBDA r : r.CANTIDAD # 0)
    IN  SelectSeq(t1, LAMBDA r : r.PRECIO_TOTAL_ORIG # 0)

Final(agrupado) ==
    SinCeros([i \in 1..Len(agrupado) |-> ColumnasFinales(agrupado[i])])

\* ------------------------------------------------------------------------
\* Summary, lines 664-676 (on a frame with at least one row)
\* ------------------------------------------------------------------------
Max(vals) == CHOOSE v \in { vals[i] : i \in 1..Len(vals) } :
                \A i \in 1..Len(vals) : vals[i] <= v

Min(vals) == CHOOSE v \in { vals[i] : i \in 1..Len(vals) } :
                \A i \in 1..Len(vals) : v <= vals[i]

\* Mutant of PrimeraPosicion: the last occurrence.
UltimaPosicion(vals, v) ==
    CHOOSE i \in 1..Len(vals) :
        vals[i] = v /\ \A j \in (i + 1)..Len(vals) : vals[j] # v

\* Position of the first occurrence of v.
PrimeraPosicion(vals, v) ==
    CHOOSE i \in 1..Len(vals) : vals[i] = v /\ \A j \in 1..(i - 1) : vals[j] # v

\* Series.idxmax(): index label of the first occurrence of the maximum.
IdxMax(t) ==
    LET vals == Col(t, "PRECIO_TOTAL_ORIG")
    IN  t[PrimeraPosicion(vals, Max(vals))].index

\* Series.idxmin(): index label of the first occurrence of the minimum.
IdxMin(t) ==
    LET vals == Col(t, "PRECIO_TOTAL_ORIG")
    IN  t[PrimeraPosicion(vals, Min(vals))].index

\* df.loc[label] (labels are unique)
Loc(t, label) == t[CHOOSE i \in 1..Len(t) : t[i].index = label]

Resumir(t) ==
    [estado |-> "ok",
     total_ventas |-> Sum(Col(t, "PRECIO_TOTAL_ORIG")),
     max_valor |-> Max(Col(t, "PRECIO_TOTAL_ORIG")),
     fila_max |-> Loc(t, IdxMax(t)),
     min_valor |-> Min(Col(t, "PRECIO_TOTAL_ORIG")),
     fila_min |-> Loc(t, IdxMin(t)),
     items |-> Len(t)]

\* ------------------------------------------------------------------------
\* Roll-up by product, lines 813-820
\* ------------------------------------------------------------------------
RECURSIVE CodigosOrdenados(_)
\* Order of the group keys of groupby(['CODIGO_PRODUCTO']) (sort=True).
CodigosOrdenados(S) ==
    IF S = {} THEN <<>>
    ELSE LET m == CHOOSE x \in S : \A y \in S \ {x} : StrLt(x, y)
         IN  <<m>> \o CodigosOrdenados(S \ {m})

\* .agg({...}) at lines 815-819 for the product c.
AggProducto(t, c, label) ==
    LET g == SelectSeq(t, LAMBDA r : r.CODIGO_PRODUCTO = c)
    IN  [index |-> label,
         CODIGO_PRODUCTO |-> c,
         NOMBRE_PRODUCTO |-> First(Col(g, "NOMBRE_PRODUCTO"), NaN),
         CLASE_CLIENTE |-> First(Col(g, "CLASE_CLIENTE"), NaN),
         CANTIDAD |-> Sum(Col(g, "CANTIDAD")),
         PRECIO_TOTAL_ORIG |-> Sum(Col(g, "PRECIO_TOTAL_ORIG"))]

\* df_final.groupby(['CODIGO_PRODUCTO']).agg({...}).reset_index()
GroupByProducto(t) ==
    LET codigos == CodigosOrdenados(Unicos(t, "CODIGO_PRODUCTO"))
    IN  [j \in 1..Len(codigos) |-> AggProducto(t, codigos[j], j - 1)]

\* Mutant of SortValuesCantidad: the rows are left in group order.
SortValuesCantidadSinOrdenar(t) == {t}

\* sort_values(['CANTIDAD']): the default sort of one column is not
\* stable, so rows with equal quantities may come out in any order.
SortValuesCantidad(t) ==
    { s \in { [i \in 1..Len(t) |-> t[p[i]]] :
                p \in { q \in [1..Len(t) -> 1..Len(t)] :
                          \A i, j \in 1..Len(t) : i # j => q[i] # q[j] } } :
        \A i \in 1..(Len(s) - 1) : s[i].CANTIDAD <= s[i + 1].CANTIDAD }

\* line 820
SoloPositivos(t) == SelectSeq(t, LAMBDA r : r.CANTIDAD > 0)

\* ------------------------------------------------------------------------
\* Suggested file name, lines 838-840 (a str is a sequence of characters)
\* ------------------------------------------------------------------------

\* The characters of the month names.
Chars ==
    [
      January |-> <<"J", "a", "n", "u", "a", "r", "y">>,
      February |-> <<"F", "e", "b", "r", "u", "a", "r", "y">>,
      March |-> <<"M", "a", "r", "c", "h">>,
      April |-> <<"A", "p", "r", "i", "l">>,
      May |-> <<"M", "a", "y">>,
      June |-> <<"J", "u", "n", "e">>,
      July |-> <<"J", "u", "l", "y">>,
      August |-> <<"A", "u", "g", "u", "s", "t">>,
      September |-> <<"S", "e", "p", "t", "e", "m", "b", "e", "r">>,
      October |-> <<"O", "c", "t", "o", "b", "e", "r">>,
      November |-> <<"N", "o", "v", "e", "m", "b", "e", "r">>,
      December |-> <<"D", "e", "c", "e", "m", "b", "e", "r">>,
      enero |-> <<"e", "n", "e", "r", "o">>,
      febrero |-> <<"f", "e", "b", "r", "e", "r", "o">>,
      marzo |-> <<"m", "a", "r", "z", "o">>,
      abril |-> <<"a", "b", "r", "i", "l">>,
      mayo |-> <<"m", "a", "y", "o">>,
      junio |-> <<"j", "u", "n", "i", "o">>,
      julio |-> <<"j", "u", "l", "i", "o">>,
      agosto |-> <<"a", "g", "o", "s", "t", "o">>,
      septiembre |-> <<"s", "e", "p", "t", "i", "e", "m", "b", "r", "e">>,
      octubre |-> <<"o", "c", "t", "u", "b", "r", "e">>,
      noviembre |-> <<"n", "o", "v", "i", "e", "m", "b", "r", "e">>,
      diciembre |-> <<"d", "i", "c", "i", "e", "m", "b", "r", "e">> ]

UpperCase == <<"A", "D", "F", "J", "M", "N", "O", "S">>

LowerCase == <<"a", "d", "f", "j", "m", "n", "o", "s">>

\* str.lower() of one character of a month name.
Lower(c) ==
    IF \E k \in 1..Len(UpperCase) : UpperCase[k] = c
    THEN LowerCase[CHOOSE k \in 1..Len(UpperCase) : UpperCase[k] = c]
    ELSE c

DigitChars == <<"0", "1", "2", "3", "4", "5", "6", "7", "8", "9">>

RECURSIVE Str(_)
\* str(n) of a non-negative integer
Str(n) ==
    IF n < 10 THEN <<DigitChars[n + 1]>>
    ELSE Str(n \div 10) \o <<DigitChars[(n % 10) + 1]>>

RECURSIVE SortedInts(_)
\* sorted(S) of a set of integers
SortedInts(S) ==
    IF S = {} THEN <<>>
    ELSE LET m == CHOOSE x \in S : \A y \in S : x <= y
         IN  <<m>> \o SortedInts(S \ {m})

RECURSIVE Join(_, _)
\* sep.join(parts)
Join(sep, parts) ==
    IF parts = <<>> THEN <<>>
    ELSE IF Len(parts) = 1 THEN parts[1]
    ELSE parts[1] \o sep \o Join(sep, Tail(parts))

\* m[:3].lower()
Abreviar(m) ==
    LET w == Chars[m]
        corte == SubSeq(w, 1, IF Len(w) < 3 THEN Len(w) ELSE 3)
    IN  [i \in 1..Len(corte) |-> Lower(corte[i])]

\* Mutant of MaxLiterales: the fallback token is used from three values on.
MaxLiteralesDos == 3 - 1

\* Largest selection that is spelled out (the 3 of lines 838 and 839).
MaxLiterales == 3

\* line 838
AniosStr(anios) ==
    IF Cardinality(anios) <= MaxLiterales
    THEN LET ordenados == SortedInts(anios)
         IN  Join(<<"_">>, [i \in 1..Len(ordenados) |-> Str(ordenados[i])])
    ELSE <<"v", "a", "r", "i", "o", "s", "_", "a", "ñ", "o", "s">>

\* line 839
MesesStr(meses) ==
    IF Cardinality(meses) <= MaxLiterales
    THEN LET ordenados == CodigosOrdenados(meses)
         IN  Join(<<"_">>, [i \in 1..Len(ordenados) |-> Abreviar(ordenados[i])])
    ELSE <<"v", "a", "r", "i", "o", "s", "_", "m", "e", "s", "e", "s">>

\* line 840
NombreDefault(anios, meses) ==
    <<"v", "e", "n", "t", "a", "s", "_">> \o AniosStr(anios) \o <<"_">>
        \o MesesStr(meses) \o <<".", "c", "s", "v">>

\* ------------------------------------------------------------------------
\* Initial state
\* ------------------------------------------------------------------------
vars == <<locale, url, final_url, requests_get, pc, resp, attempts, df,
          st_error, df_original, anio_seleccionado,
          mes_seleccionado, codigo_seleccionado, clase_seleccionada,
          df_filtrado, df_agrupado, df_final, resumen, df_agrupados,
          nombre_default>>

\* The environment of the run and the outputs of the last two sections.
entorno == <<locale, url>>

salidas == <<df_agrupados, nombre_default>>

seleccion == <<anio_seleccionado, mes_seleccionado, codigo_seleccionado,
               clase_seleccionada>>

NoResumen == [estado |-> "none"]

\* The state after lines 34-37, before cargar_datos is called at line 590.
Init ==
    /\ locale \in Locales
    /\ url = SourceUrl
    /\ final_url = <<>>
    /\ requests_get = 0
    /\ pc = "start"
    /\ resp = "none"
    /\ attempts = <<>>
    /\ df = Unbound
    /\ st_error = 0
    /\ df_original = <<>>
    /\ anio_seleccionado = {}
    /\ mes_seleccionado = {}
    /\ codigo_seleccionado = {}
    /\ clase_seleccionada = {}
    /\ df_filtrado = <<>>
    /\ df_agrupado = <<>>
    /\ df_final = <<>>
    /\ resumen = NoResumen
    /\ df_agrupados = <<>>
    /\ nombre_default = <<>>

\* ------------------------------------------------------------------------
\* load_csv_from_onedrive, lines 53-81
\* ------------------------------------------------------------------------

\* lines 54-56: the request either yields a response or raises
\* (connection error, timeout, or raise_for_status on an error status).
Fetch ==
    /\ pc = "start"
    /\ final_url' = _ensure_download_param(url)
    /\ requests_get' = requests_get + 1
    /\ \E o \in FetchOutcomes :
          /\ resp' = o
          /\ pc' = IF o = "ok" THEN "decoding" ELSE "load_raised"
    /\ UNCHANGED <<entorno, attempts, df, st_error, df_original, seleccion,
                   df_filtrado, df_agrupado, df_final, resumen, salidas>>

\* line 52: within 600 s of a run in which the loader returned, the call at
\* line 565 is answered by st.cache_data with the stored return value (a
\* frame, or None); the body of the loader does not run. A call that
\* raised stored nothing.
CacheHit ==
    /\ pc = "start"
    /\ \/ \E t \in Tables : df' = DataFrame(t)
       \/ df' = None
    /\ pc' = "loader_return"
    /\ UNCHANGED <<entorno, final_url, requests_get, resp, attempts, st_error,
                   df_original, seleccion, df_filtrado, df_agrupado, df_final,
                   resumen, salidas>>

\* Mutant of NextEncoding: the list is walked from its end.
NextEncodingInverso == encodings[Len(encodings) - Len(attempts)]

\* Encoding tried by the next iteration of the loop at line 61.
NextEncoding == encodings[Len(attempts) + 1]

\* lines 61-78: one iteration; a successful parse returns at line 73,
\* any exception continues with the next encoding.
TryEncoding ==
    /\ pc = "decoding"
    /\ Len(attempts) < Len(encodings)
    /\ \E o \in ParseOutcomes :
          /\ attempts' = Append(attempts, [encoding |-> NextEncoding, outcome |-> o])
          /\ IF o = "ok"
             THEN /\ \E t \in Tables : df' = DataFrame(t)
                  /\ pc' = "loader_return"
             ELSE /\ pc' = "decoding"
                  /\ df' = df
    /\ UNCHANGED <<entorno, final_url, requests_get, resp, st_error,
                   df_original, seleccion, df_filtrado, df_agrupado, df_final,
                   resumen, salidas>>

\* lines 80-81: the list is exhausted, the loader returns None.
NingunEncoding ==
    /\ pc = "decoding"
    /\ Len(attempts) = Len(encodings)
    /\ df' = None
    /\ pc' = "loader_return"
    /\ UNCHANGED <<entorno, final_url, requests_get, resp, attempts, st_error,
                   df_original, seleccion, df_filtrado, df_agrupado, df_final,
                   resumen, salidas>>

\* ------------------------------------------------------------------------
\* cargar_datos (lines 565-583) and the emptiness check (lines 590-593)
\* ------------------------------------------------------------------------

\* The loader returned a frame and the dates parse: lines 572-579, then
\* lines 592-593. The loader's locals end with its call.
CargarDatos ==
    /\ pc = "loader_return"
    /\ df.tipo = "DataFrame"
    /\ \E inferir \in BOOLEAN :
          /\ FechasValidas(df.filas, inferir)
          /\ df_original' = Normalizar(df.filas, inferir)
    /\ pc' = IF df_original' = <<>> THEN "stopped" ELSE "filtros"
    /\ attempts' = <<>>
    /\ UNCHANGED <<entorno, final_url, requests_get, resp, df, st_error,
                   seleccion, df_filtrado, df_agrupado, df_final, resumen,
                   salidas>>

\* Mutant of CargarDatosExcept: a failed request is made again.
CargarDatosExceptReintenta ==
    /\ \/ pc = "load_raised"
       \/ pc = "loader_return" /\ df = None
    /\ df_original' = <<>>
    /\ pc' = IF pc = "load_raised" THEN "start" ELSE "stopped"
    /\ attempts' = <<>>
    /\ st_error' = st_error + 1
    /\ UNCHANGED <<entorno, final_url, requests_get, resp, df, seleccion,
                   df_filtrado, df_agrupado, df_final, resumen, salidas>>

\* Mutant of CargarDatosExcept: st.stop() at line 593 is missing.
CargarDatosExceptSinStop ==
    /\ \/ pc = "load_raised"
       \/ pc = "loader_return" /\ df = None
    /\ df_original' = <<>>
    /\ pc' = "filtros"
    /\ attempts' = <<>>
    /\ st_error' = st_error + 1
    /\ UNCHANGED <<entorno, final_url, requests_get, resp, df, seleccion,
                   df_filtrado, df_agrupado, df_final, resumen, salidas>>

\* The loader raised, or returned None and line 572 raised TypeError, or
\* line 574 raised ValueError: lines 581-583 show the error and return an
\* empty DataFrame, lines 592-593 stop the script.
CargarDatosExcept ==
    /\ \/ pc = "load_raised"
       \/ pc = "loader_return" /\ df = None
       \/ /\ pc = "loader_return"
          /\ df.tipo = "DataFrame"
          /\ \E inferir \in BOOLEAN : ~FechasValidas(df.filas, inferir)
    /\ df_original' = <<>>
    /\ pc' = "stopped"
    /\ attempts' = <<>>
    /\ st_error' = st_error + 1
    /\ UNCHANGED <<entorno, final_url, requests_get, resp, df, seleccion,
                   df_filtrado, df_agrupado, df_final, resumen, salidas>>

\* ------------------------------------------------------------------------
\* The script body, lines 598-860
\* ------------------------------------------------------------------------

\* lines 601-633: the multiselects offer the values present in df_original
\* (dropna() removes the missing customer class); any subset may be selected.
AplicarFiltros ==
    /\ pc = "filtros"
    /\ \E a \in SUBSET Unicos(df_original, "ANIO"),
          m \in SUBSET Unicos(df_original, "MES"),
          c \in SUBSET Unicos(df_original, "CODIGO_PRODUCTO"),
          k \in SUBSET (Unicos(df_original, "CLASE_CLIENTE") \ {NaN}) :
          /\ anio_seleccionado' = a
          /\ mes_seleccionado' = m
          /\ codigo_seleccionado' = c
          /\ clase_seleccionada' = k
          /\ df_filtrado' = Filtrar(df_original, a, m, c, k)
    /\ pc' = "filtrado"
    /\ UNCHANGED <<entorno, final_url, requests_get, resp, attempts, df,
                   st_error, df_original, df_agrupado, df_final, resumen,
                   salidas>>

\* lines 638-662
AgruparResultados ==
    /\ pc = "filtrado"
    /\ df_filtrado # <<>>
    /\ df_agrupado' = Agrupar(df_filtrado)
    /\ df_final' = Final(df_agrupado')
    /\ pc' = "agrupado"
    /\ UNCHANGED <<entorno, final_url, requests_get, resp, attempts, df,
                   st_error, df_original, seleccion, df_filtrado, resumen,
                   salidas>>

\* lines 859-860: the else branch of line 638
SinDatos ==
    /\ pc = "filtrado"
    /\ df_filtrado = <<>>
    /\ pc' = "warning"
    /\ UNCHANGED <<entorno, final_url, requests_get, resp, attempts, df,
                   st_error, df_original, seleccion, df_filtrado, df_agrupado,
                   df_final, resumen, salidas>>

\* lines 664-676: idxmax on an empty Series raises ValueError, which
\* nothing catches.
CalcularResumen ==
    /\ pc = "agrupado"
    /\ IF df_final = <<>>
       THEN /\ resumen' = [estado |-> "ValueError"]
            /\ pc' = "crashed"
       ELSE /\ resumen' = Resumir(df_final)
            /\ pc' = "resumido"
    /\ UNCHANGED <<entorno, final_url, requests_get, resp, attempts, df,
                   st_error, df_original, seleccion, df_filtrado, df_agrupado,
                   df_final, salidas>>

\* lines 813-820
AgruparPorArticulo ==
    /\ pc = "resumido"
    /\ \E s \in SortValuesCantidad(GroupByProducto(df_final)) :
          df_agrupados' = SoloPositivos(s)
    /\ pc' = "por_articulo"
    /\ UNCHANGED <<entorno, final_url, requests_get, resp, attempts, df,
                   st_error, df_original, seleccion, df_filtrado, df_agrupado,
                   df_final, resumen, nombre_default>>

\* lines 838-840; the run may end at one of the Streamlit calls of lines
\* 821-835 and never take this step.
SugerirNombre ==
    /\ pc = "por_articulo"
    /\ nombre_default' = NombreDefault(anio_seleccionado, mes_seleccionado)
    /\ pc' = "exportar"
    /\ UNCHANGED <<entorno, final_url, requests_get, resp, attempts, df,
                   st_error, df_original, seleccion, df_filtrado, df_agrupado,
                   df_final, resumen, df_agrupados>>

Next ==
    \/ Fetch
    \/ CacheHit
    \/ TryEncoding
    \/ NingunEncoding
    \/ CargarDatos
    \/ CargarDatosExcept
    \/ AplicarFiltros
    \/ AgruparResultados
    \/ SinDatos
    \/ CalcularResumen
    \/ AgruparPorArticulo
    \/ SugerirNombre

Spec == Init /\ [][Next]_vars

\* ------------------------------------------------------------------------
\* _ensure_download_param on its own: applied to a URL, then to its result
\* ------------------------------------------------------------------------
InitUrl ==
    /\ locale = "C"
    /\ url \in Urls
    /\ final_url = <<>>
    /\ requests_get = 0
    /\ pc = "url"
    /\ resp = "none"
    /\ attempts = <<>>
    /\ df = Unbound
    /\ st_error = 0
    /\ df_original = <<>>
    /\ anio_seleccionado = {}
    /\ mes_seleccionado = {}
    /\ codigo_seleccionado = {}
    /\ clase_seleccionada = {}
    /\ df_filtrado = <<>>
    /\ df_agrupado = <<>>
    /\ df_final = <<>>
    /\ resumen = NoResumen
    /\ df_agrupados = <<>>
    /\ nombre_default = <<>>

\* final_url = _ensure_download_param(url), line 54
Asegurar ==
    /\ pc = "url"
    /\ final_url' = _ensure_download_param(url)
    /\ pc' = "url_asegurada"
    /\ UNCHANGED <<entorno, requests_get, resp, attempts, df, st_error,
                   df_original, seleccion, df_filtrado, df_agrupado, df_final,
                   resumen, salidas>>

\* The function applied to its own result: the result becomes the argument.
AsegurarResultado ==
    /\ pc = "url_asegurada"
    /\ url' = final_url
    /\ final_url' = _ensure_download_param(final_url)
    /\ pc' = "url_reasegurada"
    /\ UNCHANGED <<locale, requests_get, resp, attempts, df, st_error,
                   df_original, seleccion, df_filtrado, df_agrupado, df_final,
                   resumen, salidas>>

NextUrl ==
    \/ Asegurar
    \/ AsegurarResultado

SpecUrl == InitUrl /\ [][NextUrl]_vars

\* ------------------------------------------------------------------------
\* Vocabulary of the properties (written without the operators above)
\* ------------------------------------------------------------------------

\* The filters of lines 626-633 have run.
FiltroAplicado ==
    pc \notin {"start", "decoding", "load_raised", "loader_return", "stopped",
               "filtros"}

\* Lines 639-662 have run (they run only on a non-empty df_filtrado).
AgregadoHecho == df_agrupado # <<>>

RECURSIVE SumIdx(_, _, _)
\* Arithmetic sum of column c over the rows of t at the positions I.
SumIdx(t, I, c) ==
    IF I = {} THEN 0
    ELSE LET i == CHOOSE x \in I : TRUE
         IN  t[i][c] + SumIdx(t, I \ {i}, c)

\* Group of a row: (product_code, year, month_number, month_name).
GroupOf(r) == <<r.CODIGO_PRODUCTO, r.ANIO, r.MES_NUM, r.MES>>

\* Positions of the filtered rows that belong to the group g.
Members(g) == { i \in 1..Len(df_filtrado) : GroupOf(df_filtrado[i]) = g }

\* The Aggregate Row of df_agrupado that a row of df_final comes from.
Origen(f) == CHOOSE j \in 1..Len(df_agrupado) : df_agrupado[j].index = f.index

\* ------------------------------------------------------------------------
\* C1: the Filter Engine output is exactly the rows of the normalized table
\* whose year is in the years set AND whose month_name is in the months set
\* AND (the product-code set is empty OR product_code is in it) AND whose
\* customer_class is in the classes set, in their original order.
\* ------------------------------------------------------------------------
C1_FilterExact ==
    FiltroAplicado =>
        df_filtrado =
            SelectSeq(df_original,
                      LAMBDA r : /\ r.ANIO \in anio_seleccionado
                                 /\ r.MES \in mes_seleccionado
                                 /\ (codigo_seleccionado = {}
                                     \/ r.CODIGO_PRODUCTO \in codigo_seleccionado)
                                 /\ r.CLASE_CLIENTE \in clase_seleccionada)

\* An empty product-code selection that keeps rows of both codes.
C1_Witness ==
    /\ pc = "filtrado"
    /\ codigo_seleccionado = {}
    /\ \E i, j \in 1..Len(df_filtrado) :
          /\ df_filtrado[i].CODIGO_PRODUCTO = "A"
          /\ df_filtrado[j].CODIGO_PRODUCTO = "B"

\* ------------------------------------------------------------------------
\* C2: before the zero-filter the Aggregator holds exactly one row per
\* distinct (product_code, year, month_number, month_name) group of the
\* filtered rows, its quantity and total_price_orig are the sums over the
\* filtered rows of that group, and no two Aggregate Rows share
\* (product_code, year, month_number).
\* ------------------------------------------------------------------------
C2_OneRowPerGroup ==
    AgregadoHecho =>
        /\ \A i \in 1..Len(df_filtrado) :
              Cardinality({ j \in 1..Len(df_agrupado) :
                              GroupOf(df_agrupado[j]) = GroupOf(df_filtrado[i]) }) = 1
        /\ \A j \in 1..Len(df_agrupado) :
              LET m == Members(GroupOf(df_agrupado[j]))
              IN  /\ m # {}
                  /\ df_agrupado[j].CANTIDAD = SumIdx(df_filtrado, m, "CANTIDAD")
                  /\ df_agrupado[j].PRECIO_TOTAL_ORIG =
                         SumIdx(df_filtrado, m, "PRECIO_TOTAL_ORIG")
        /\ \A j, k \in 1..Len(df_agrupado) :
              (/\ df_agrupado[j].CODIGO_PRODUCTO = df_agrupado[k].CODIGO_PRODUCTO
               /\ df_agrupado[j].ANIO = df_agrupado[k].ANIO
               /\ df_agrupado[j].MES_NUM = df_agrupado[k].MES_NUM) => j = k

\* Two filtered rows of different groups that share the product code, and
\* so two Aggregate Rows.
C2_Witness ==
    /\ AgregadoHecho
    /\ Len(df_agrupado) = 2
    /\ df_agrupado[1].CODIGO_PRODUCTO = df_agrupado[2].CODIGO_PRODUCTO
    /\ df_agrupado[1].CANTIDAD = -1

\* ------------------------------------------------------------------------
\* C3: document_date, product_name, customer_class and document_status of
\* an Aggregate Row are those of the first row of its group in the row
\* order of the filtered table.
\* ------------------------------------------------------------------------
C3_FirstRowValues ==
    AgregadoHecho =>
        \A j \in 1..Len(df_agrupado) :
            LET m == Members(GroupOf(df_agrupado[j]))
                first == CHOOSE i \in m : \A k \in m : i <= k
                a == df_agrupado[j]
                r == df_filtrado[first]
            IN  /\ a.FECHA_DOCUMENTO = r.FECHA_DOCUMENTO
                /\ a.NOMBRE_PRODUCTO = r.NOMBRE_PRODUCTO
                /\ a.CLASE_CLIENTE = r.CLASE_CLIENTE
                /\ a.ESTADO_DOCUMENTO = r.ESTADO_DOCUMENTO

\* A group of two rows whose first row carries the later date and the
\* other name and status.
C3_Witness ==
    /\ AgregadoHecho
    /\ Len(df_filtrado) = 2
    /\ Len(df_agrupado) = 1
    /\ df_filtrado[1].NOMBRE_PRODUCTO = "n2"
    /\ df_filtrado[2].NOMBRE_PRODUCTO = "n1"
    /\ df_filtrado[1].FECHA_DOCUMENTO[3] > df_filtrado[2].FECHA_DOCUMENTO[3]
    /\ df_agrupado[1].NOMBRE_PRODUCTO = "n2"

\* ------------------------------------------------------------------------
\* C4: an Aggregate Row is in the final table if and only if its summed
\* quantity is nonzero and its summed total_price_orig is nonzero; the
\* final table holds nothing else.
\* ------------------------------------------------------------------------
C4_ZeroExclusion ==
    AgregadoHecho =>
        /\ \A j \in 1..Len(df_agrupado) :
              (\E i \in 1..Len(df_final) : df_final[i].index = df_agrupado[j].index)
                  <=> (df_agrupado[j].CANTIDAD # 0
                       /\ df_agrupado[j].PRECIO_TOTAL_ORIG # 0)
        /\ \A i \in 1..Len(df_final) :
              /\ df_final[i].CANTIDAD # 0
              /\ df_final[i].PRECIO_TOTAL_ORIG # 0
              /\ \E j \in 1..Len(df_agrupado) :
                    /\ df_agrupado[j].index = df_final[i].index
                    /\ df_agrupado[j].CANTIDAD = df_final[i].CANTIDAD
                    /\ df_agrupado[j].PRECIO_TOTAL_ORIG = df_final[i].PRECIO_TOTAL_ORIG
                    /\ df_agrupado[j].CODIGO_PRODUCTO = df_final[i].CODIGO_PRODUCTO

\* One group with a nonzero quantity and a zero total is excluded while
\* another group is kept.
C4_Witness ==
    /\ AgregadoHecho
    /\ Len(df_final) = 1
    /\ \E j \in 1..Len(df_agrupado) :
          df_agrupado[j].CANTIDAD # 0 /\ df_agrupado[j].PRECIO_TOTAL_ORIG = 0

\* ------------------------------------------------------------------------
\* C5: when the filter output or the final table has zero rows the run
\* ends in the "no matching data" state, and the Summary Calculator
\* (total, extremum lookups) never runs on a zero-row table.
\* ------------------------------------------------------------------------
C5_EmptyResultGated ==
    /\ (resumen # NoResumen => df_final # <<>>)
    /\ pc # "crashed"
    /\ (FiltroAplicado /\ df_filtrado = <<>> => pc \in {"filtrado", "warning"})

\* ------------------------------------------------------------------------
\* C6: the sum of total_price_orig over the final table equals the sum of
\* total_price_orig over the filtered rows whose group is still in the
\* final table.
\* ------------------------------------------------------------------------
C6_SumConservation ==
    AgregadoHecho =>
        LET kept == { i \in 1..Len(df_filtrado) :
                        \E f \in 1..Len(df_final) :
                            GroupOf(df_agrupado[Origen(df_final[f])])
                                = GroupOf(df_filtrado[i]) }
        IN  SumIdx(df_final, 1..Len(df_final), "PRECIO_TOTAL_ORIG")
                = SumIdx(df_filtrado, kept, "PRECIO_TOTAL_ORIG")

\* The only row of the final table sums the totals of the two filtered rows
\* of its group.
C6_Witness ==
    /\ AgregadoHecho
    /\ Len(df_final) = 1
    /\ df_final[1].PRECIO_TOTAL_ORIG = 2
    /\ Cardinality(Members(GroupOf(df_agrupado[Origen(df_final[1])]))) = 2

\* ------------------------------------------------------------------------
\* C7: max_row (min_row) is the first row, in the order of the final table,
\* whose total_price_orig is the maximum (minimum) of the table.
\* ------------------------------------------------------------------------
C7_FirstExtremum ==
    resumen.estado = "ok" =>
        \E i, j \in 1..Len(df_final) :
            /\ resumen.fila_max = df_final[i]
            /\ \A k \in 1..Len(df_final) :
                  df_final[k].PRECIO_TOTAL_ORIG <= df_final[i].PRECIO_TOTAL_ORIG
            /\ \A k \in 1..(i - 1) :
                  df_final[k].PRECIO_TOTAL_ORIG < df_final[i].PRECIO_TOTAL_ORIG
            /\ resumen.fila_min = df_final[j]
            /\ \A k \in 1..Len(df_final) :
                  df_final[j].PRECIO_TOTAL_ORIG <= df_final[k].PRECIO_TOTAL_ORIG
            /\ \A k \in 1..(j - 1) :
                  df_final[j].PRECIO_TOTAL_ORIG < df_final[k].PRECIO_TOTAL_ORIG

\* Two rows tie for the maximum; the sort has moved the row with the larger
\* index label to the front, and that row is max_row.
C7_Witness ==
    /\ resumen.estado = "ok"
    /\ Len(df_final) = 2
    /\ df_final[1].PRECIO_TOTAL_ORIG = df_final[2].PRECIO_TOTAL_ORIG
    /\ df_final[1].index > df_final[2].index
    /\ resumen.fila_max = df_final[1]

\* ------------------------------------------------------------------------
\* C8: the Loader fails with an error exactly when the request fails or
\* every encoding is rejected, and then hands no null result to its caller.
\* ------------------------------------------------------------------------
C8_NoNullResult ==
    /\ (pc = "loader_return" /\ resp = "ok" => df.tipo = "DataFrame")
    /\ ((/\ Len(attempts) = Len(encodings)
         /\ \A i \in 1..Len(attempts) : attempts[i].outcome # "ok")
            => pc \in {"decoding", "load_raised"})

\* ------------------------------------------------------------------------
\* C9: when loading fails (the request fails, or all encodings are
\* rejected) the run halts: no filter, aggregation or summary runs and no
\* table reaches a later stage.
\* ------------------------------------------------------------------------
LoadFailed == resp = "raised" \/ df = None

C9_LoadFailureHalts ==
    LoadFailed =>
        /\ pc \in {"load_raised", "loader_return", "stopped"}
        /\ df_original = <<>>
        /\ df_filtrado = <<>>
        /\ df_agrupado = <<>>
        /\ df_final = <<>>
        /\ resumen = NoResumen

\* Every encoding was rejected and the script has stopped.
C9_Witness ==
    /\ resp = "ok"
    /\ df = None
    /\ pc = "stopped"

\* ------------------------------------------------------------------------
\* C10: the encodings are tried in the order latin1, iso-8859-1, cp1252,
\* utf-8; the loader returns at the first encoding that parses and tries
\* no encoding after it.
\* ------------------------------------------------------------------------
C10_EncodingOrder ==
    /\ Len(attempts) <= 4
    /\ \A i \in 1..Len(attempts) :
          /\ attempts[i].encoding = <<"latin1", "iso-8859-1", "cp1252", "utf-8">>[i]
          /\ (i < Len(attempts) => attempts[i].outcome # "ok")
    /\ (pc = "loader_return" /\ resp = "ok" /\ df.tipo = "DataFrame"
            => attempts # <<>> /\ attempts[Len(attempts)].outcome = "ok")
    /\ (attempts # <<>> /\ attempts[Len(attempts)].outcome = "ok"
            => pc = "loader_return" /\ df.tipo = "DataFrame")

\* A payload that only cp1252 decodes comes back as the cp1252 parse.
C10_Witness ==
    /\ pc = "loader_return"
    /\ df.tipo = "DataFrame"
    /\ Len(attempts) = 3
    /\ attempts[1].outcome = "UnicodeDecodeError"
    /\ attempts[2].outcome = "UnicodeDecodeError"
    /\ attempts[3] = [encoding |-> "cp1252", outcome |-> "ok"]

\* ------------------------------------------------------------------------
\* C11: the normalizer's output is exactly the loaded rows whose quantity
\* is not zero, in their original order and with their loaded values; every
\* surviving row has a quantity other than zero, and its year and month
\* number are the year and month of its own document date.
\* ------------------------------------------------------------------------

\* Lines 572-579 ran to their end (no exception reached line 581).
Normalizado ==
    /\ df.tipo = "DataFrame"
    /\ st_error = 0
    /\ pc \notin {"start", "decoding", "load_raised", "loader_return"}

\* Positions of the loaded rows whose quantity is not zero, ascending.
Sobrevivientes ==
    LET RECURSIVE Desde(_)
        Desde(i) ==
            IF i > Len(df.filas) THEN <<>>
            ELSE IF df.filas[i].CANTIDAD # 0 THEN <<i>> \o Desde(i + 1)
            ELSE Desde(i + 1)
    IN  Desde(1)

C11_NormalizerOutput ==
    Normalizado =>
        LET vivas == Sobrevivientes
        IN  /\ Len(df_original) = Len(vivas)
            /\ \A i \in 1..Len(df_original) :
                  LET cruda == df.filas[vivas[i]]
                      fila == df_original[i]
                  IN  /\ fila.CODIGO_PRODUCTO = cruda.CODIGO_PRODUCTO
                      /\ fila.NOMBRE_PRODUCTO = cruda.NOMBRE_PRODUCTO
                      /\ fila.CLASE_CLIENTE = cruda.CLASE_CLIENTE
                      /\ fila.CANTIDAD = cruda.CANTIDAD
                      /\ fila.PRECIO_TOTAL_ORIG = cruda.PRECIO_TOTAL_ORIG
                      /\ fila.ESTADO_DOCUMENTO = cruda.ESTADO_DOCUMENTO
                      /\ fila.CANTIDAD # 0
                      /\ fila.ANIO = fila.FECHA_DOCUMENTO[1]
                      /\ fila.MES_NUM = fila.FECHA_DOCUMENTO[2]

\* The first of two loaded rows has quantity zero and only the second
\* survives.
C11_Witness ==
    /\ Normalizado
    /\ Len(df.filas) = 2
    /\ df.filas[1].CANTIDAD = 0
    /\ Len(df_original) = 1
    /\ df_original[1].NOMBRE_PRODUCTO = df.filas[2].NOMBRE_PRODUCTO

\* ------------------------------------------------------------------------
\* C12: a document date text a/b/y whose two leading numbers are both
\* between 1 and 12 and differ is read day first: the month number of the
\* row is b.
\* ------------------------------------------------------------------------
Ambigua(texto) ==
    /\ texto[1] = "/"
    /\ texto[2] \in 1..12
    /\ texto[3] \in 1..12
    /\ texto[2] # texto[3]

C12_DayFirst ==
    Normalizado =>
        \A i \in 1..Len(df_original) :
            LET texto == df.filas[Sobrevivientes[i]].FECHA_DOCUMENTO
            IN  Ambigua(texto) => df_original[i].MES_NUM = texto[3]

\* ------------------------------------------------------------------------
\* C13: the roll-up by product has exactly one row for each product code
\* whose quantity summed over the product's rows of the final table is
\* greater than zero, and no other row; the row carries that summed
\* quantity, the summed total and the name and customer class of the
\* product's first row of the final table; the rows are in ascending order
\* of summed quantity.
\* ------------------------------------------------------------------------

\* Lines 813-820 have run.
RollupHecho == pc \in {"por_articulo", "exportar"}

\* Positions of the final-table rows of the product c.
FilasDe(c) == { i \in 1..Len(df_final) : df_final[i].CODIGO_PRODUCTO = c }

\* The first of them.
PrimeraDe(c) == CHOOSE i \in FilasDe(c) : \A j \in FilasDe(c) : i <= j

C13_ProductRollup ==
    RollupHecho =>
        /\ { df_agrupados[i].CODIGO_PRODUCTO : i \in 1..Len(df_agrupados) }
              = { c \in { df_final[i].CODIGO_PRODUCTO : i \in 1..Len(df_final) } :
                    SumIdx(df_final, FilasDe(c), "CANTIDAD") > 0 }
        /\ \A i, j \in 1..Len(df_agrupados) :
              i # j => df_agrupados[i].CODIGO_PRODUCTO # df_agrupados[j].CODIGO_PRODUCTO
        /\ \A i \in 1..Len(df_agrupados) :
              LET fila == df_agrupados[i]
                  c == fila.CODIGO_PRODUCTO
              IN  /\ fila.CANTIDAD = SumIdx(df_final, FilasDe(c), "CANTIDAD")
                  /\ fila.PRECIO_TOTAL_ORIG
                        = SumIdx(df_final, FilasDe(c), "PRECIO_TOTAL_ORIG")
                  /\ fila.NOMBRE_PRODUCTO = df_final[PrimeraDe(c)].NOMBRE_PRODUCTO
                  /\ fila.CLASE_CLIENTE = df_final[PrimeraDe(c)].CLASE_CLIENTE
        /\ \A i \in 1..(Len(df_agrupados) - 1) :
              df_agrupados[i].CANTIDAD <= df_agrupados[i + 1].CANTIDAD

\* Four final rows of two products whose first and second rows differ in
\* name and class; the product with the smaller sum comes first although
\* its code sorts last.
C13_Witness ==
    /\ RollupHecho
    /\ Len(df_final) = 4
    /\ Len(df_agrupados) = 2
    /\ df_agrupados[1].CODIGO_PRODUCTO = "B"
    /\ df_agrupados[1].CANTIDAD = 3
    /\ df_agrupados[2].CANTIDAD = 4
    /\ df_final[PrimeraDe("B")].NOMBRE_PRODUCTO
          # df_final[CHOOSE i \in FilasDe("B") : i # PrimeraDe("B")].NOMBRE_PRODUCTO

\* ------------------------------------------------------------------------
\* C17: the final table is in ascending order of (year, month_number,
\* product_code) and the zero exclusion keeps that order: of any two
\* consecutive rows of the final table the first is strictly less than the
\* second.
\* ------------------------------------------------------------------------

\* (y1, m1, c1) < (y2, m2, c2), lexicographically.
TripleLt(a, b) ==
    \/ a.ANIO < b.ANIO
    \/ a.ANIO = b.ANIO /\ a.MES_NUM < b.MES_NUM
    \/ /\ a.ANIO = b.ANIO
       /\ a.MES_NUM = b.MES_NUM
       /\ a.CODIGO_PRODUCTO # b.CODIGO_PRODUCTO
       /\ \E i, j \in 1..Len(StrOrder) :
             i < j /\ StrOrder[i] = a.CODIGO_PRODUCTO /\ StrOrder[j] = b.CODIGO_PRODUCTO

C17_FinalSorted ==
    AgregadoHecho =>
        /\ \A i \in 1..(Len(df_final) - 1) :
              TripleLt(df_agrupado[Origen(df_final[i])],
                       df_agrupado[Origen(df_final[i + 1])])
        /\ \A i \in 1..(Len(df_agrupado) - 1) :
              TripleLt(df_agrupado[i], df_agrupado[i + 1])

\* Two final rows that the sort has exchanged: the group of the first was
\* produced after the group of the second.
C17_Witness ==
    /\ Len(df_final) >= 2
    /\ df_final[1].index > df_final[2].index
    /\ df_final[1].CODIGO_PRODUCTO = "B"

\* ------------------------------------------------------------------------
\* C14 as stated: for every source URL, the URL fetched is the source URL
\* followed by the joiner and the text download=1, the joiner being & when
\* the source URL contains a ? and ? otherwise.
\* ------------------------------------------------------------------------

\* The function has been applied (once, or again to its result).
Asegurada == pc \in {"url_asegurada", "url_reasegurada"}

\* The source URL with the joiner and download=1 after it.
ConParametro(u) ==
    u \o (IF \E i \in 1..Len(u) : u[i] = "?" THEN <<"&">> ELSE <<"?">>)
      \o <<"d", "o", "w", "n", "l", "o", "a", "d", "=", "1">>

\* s contains the text download=1
TieneParametro(s) ==
    \E i \in 1..Len(s) :
        /\ i + 9 <= Len(s)
        /\ <<s[i], s[i + 1], s[i + 2], s[i + 3], s[i + 4], s[i + 5], s[i + 6],
             s[i + 7], s[i + 8], s[i + 9]>>
              = <<"d", "o", "w", "n", "l", "o", "a", "d", "=", "1">>

C14_AlwaysAppended ==
    Asegurada => final_url = ConParametro(url)

\* ------------------------------------------------------------------------
\* C14, amended: for every source URL that does not contain the text
\* download=1, the URL fetched is the source URL followed by the joiner and
\* the text download=1, the joiner being & when the source URL contains a ?
\* and ? otherwise; a source URL that contains download=1 is fetched
\* unchanged.
\* ------------------------------------------------------------------------
C14_AppendedUnlessPresent ==
    Asegurada =>
        IF TieneParametro(url)
        THEN final_url = url
        ELSE final_url = ConParametro(url)

\* A URL with a query string and without the parameter got "&download=1".
C14_Witness ==
    /\ pc = "url_asegurada"
    /\ url = <<"h", "?", "e", "=", "4">>
    /\ final_url = <<"h", "?", "e", "=", "4", "&",
                     "d", "o", "w", "n", "l", "o", "a", "d", "=", "1">>

\* ------------------------------------------------------------------------
\* C18: a failed request is not retried: a run issues at most one request,
\* and when the request fails the failure is shown once and no further
\* request is made.
\* ------------------------------------------------------------------------
C18_NoRetry ==
    /\ requests_get <= 1
    /\ st_error <= 1
    /\ (resp = "raised" =>
            /\ requests_get = 1
            /\ pc \in {"load_raised", "stopped"}
            /\ (pc = "stopped" => st_error = 1))

\* The request failed, the error was shown and the script stopped.
C18_Witness ==
    /\ resp = "raised"
    /\ pc = "stopped"
    /\ st_error = 1
    /\ requests_get = 1

\* ------------------------------------------------------------------------
\* C19: _ensure_download_param is idempotent and never duplicates the
\* parameter: applied to its own result it returns it unchanged, its result
\* always contains the text download=1, and a URL that contains download=1
\* anywhere is returned unchanged.
\* ------------------------------------------------------------------------
C19_Idempotent ==
    /\ (Asegurada => TieneParametro(final_url))
    /\ (Asegurada /\ TieneParametro(url) => final_url = url)
    /\ (pc = "url_reasegurada" => final_url = url)

\* The second application was given a result of the first, a URL with the
\* parameter, and returned it.
C19_Witness ==
    /\ pc = "url_reasegurada"
    /\ final_url = url
    /\ url = <<"h", "?", "d", "o", "w", "n", "l", "o", "a", "d", "=", "1">>

\* ------------------------------------------------------------------------
\* C15 as stated: the suggested file name is ventas_<years>_<months>.csv,
\* <years> being the selected years joined by underscores as literal values
\* (or varios_años when more than 3 years are selected) and <months> the
\* selected month names joined by underscores as literal values (or
\* varios_meses when more than 3 months are selected); the name depends on
\* the year and month selections only.
\* ------------------------------------------------------------------------

\* Lines 838-840 have run.
NombreSugerido == pc = "exportar"

\* The elements of a set of years, ascending.
Ascendente(S) ==
    LET RECURSIVE Desde(_)
        Desde(R) ==
            IF R = {} THEN <<>>
            ELSE LET m == CHOOSE x \in R : \A y \in R : x <= y
                 IN  <<m>> \o Desde(R \ {m})
    IN  Desde(S)

\* The elements of a set of month names, in the order of sorted().
Alfabetico(S) ==
    SelectSeq(StrOrder, LAMBDA x : x \in S)

\* The texts of a sequence with "_" between them.
ConGuiones(textos) ==
    LET RECURSIVE Desde(_)
        Desde(i) ==
            IF i > Len(textos) THEN <<>>
            ELSE IF i = Len(textos) THEN textos[i]
            ELSE textos[i] \o <<"_">> \o Desde(i + 1)
    IN  Desde(1)

\* The decimal numeral of a year.
Numeral(y) ==
    LET d == <<"0", "1", "2", "3", "4", "5", "6", "7", "8", "9">>
    IN  << d[(y \div 1000) + 1], d[((y \div 100) % 10) + 1],
           d[((y \div 10) % 10) + 1], d[(y % 10) + 1] >>

\* ventas_<years>_<months>.csv
Ventas(years, months) ==
    <<"v", "e", "n", "t", "a", "s", "_">> \o years \o <<"_">> \o months
        \o <<".", "c", "s", "v">>

\* <years> of the selection.
YearsPart ==
    IF Cardinality(anio_seleccionado) > 3
    THEN <<"v", "a", "r", "i", "o", "s", "_", "a", "ñ", "o", "s">>
    ELSE LET ys == Ascendente(anio_seleccionado)
         IN  ConGuiones([i \in 1..Len(ys) |-> Numeral(ys[i])])

C15_LiteralNames ==
    NombreSugerido =>
        nombre_default =
            Ventas(YearsPart,
                   IF Cardinality(mes_seleccionado) > 3
                   THEN <<"v", "a", "r", "i", "o", "s", "_", "m", "e", "s", "e", "s">>
                   ELSE LET ms == Alfabetico(mes_seleccionado)
                        IN  ConGuiones([i \in 1..Len(ms) |-> Chars[ms[i]]]))

\* ------------------------------------------------------------------------
\* C15, amended: the suggested file name is ventas_<years>_<months>.csv,
\* <years> being the selected years in ascending order joined by
\* underscores as literal values (or varios_años when more than 3 years
\* are selected) and <months> the first three characters, in lower case,
\* of each selected month name, in the sorted order of the names, joined
\* by underscores (or varios_meses when more than 3 months are selected);
\* the name depends on the year and month selections only.
\* ------------------------------------------------------------------------

\* The first three characters of the month names, in lower case.
TresLetras ==
    [
      January |-> <<"j", "a", "n">>,
      February |-> <<"f", "e", "b">>,
      March |-> <<"m", "a", "r">>,
      April |-> <<"a", "p", "r">>,
      May |-> <<"m", "a", "y">>,
      June |-> <<"j", "u", "n">>,
      July |-> <<"j", "u", "l">>,
      August |-> <<"a", "u", "g">>,
      September |-> <<"s", "e", "p">>,
      October |-> <<"o", "c", "t">>,
      November |-> <<"n", "o", "v">>,
      December |-> <<"d", "e", "c">>,
      enero |-> <<"e", "n", "e">>,
      febrero |-> <<"f", "e", "b">>,
      marzo |-> <<"m", "a", "r">>,
      abril |-> <<"a", "b", "r">>,
      mayo |-> <<"m", "a", "y">>,
      junio |-> <<"j", "u", "n">>,
      julio |-> <<"j", "u", "l">>,
      agosto |-> <<"a", "g", "o">>,
      septiembre |-> <<"s", "e", "p">>,
      octubre |-> <<"o", "c", "t">>,
      noviembre |-> <<"n", "o", "v">>,
      diciembre |-> <<"d", "i", "c">> ]

C15_AbbreviatedNames ==
    NombreSugerido =>
        nombre_default =
            Ventas(YearsPart,
                   IF Cardinality(mes_seleccionado) > 3
                   THEN <<"v", "a", "r", "i", "o", "s", "_", "m", "e", "s", "e", "s">>
                   ELSE LET ms == Alfabetico(mes_seleccionado)
                        IN  ConGuiones([i \in 1..Len(ms) |-> TresLetras[ms[i]]]))

\* Four years and the months March and April: ventas_varios_años_apr_mar.csv
C15_Witness ==
    /\ NombreSugerido
    /\ Cardinality(anio_seleccionado) = 4
    /\ mes_seleccionado = {"March", "April"}
    /\ nombre_default =
          <<"v", "e", "n", "t", "a", "s", "_", "v", "a", "r", "i", "o", "s",
            "_", "a", "ñ", "o", "s", "_", "a", "p", "r", "_", "m", "a", "r",
            ".", "c", "s", "v">>

\* ------------------------------------------------------------------------
\* C16 as stated: for the two input rows (P1, 2024-03-05, qty 2, total 100,
\* Minorista) and (P1, 2024-03-20, qty 3, total 50, Minorista) and the
\* selections years={2024}, months={March}, codes={}, classes={Minorista},
\* the aggregator's output is exactly one row P1 / 2024 / month 3 with
\* quantity 5 and total 150, and the summary is total_sales=150,
\* item_count=1, max_row = min_row = that row.
\* ------------------------------------------------------------------------

\* The remote file holds the two rows of the scenario and they have been
\* normalized.
Escenario ==
    /\ Normalizado
    /\ Len(df.filas) = 2
    /\ \A i \in 1..2 :
          /\ df.filas[i].CODIGO_PRODUCTO = "P1"
          /\ df.filas[i].CLASE_CLIENTE = "Minorista"
    /\ df.filas[1].FECHA_DOCUMENTO = <<"-", 2024, 3, 5>>
    /\ df.filas[1].CANTIDAD = 2
    /\ df.filas[1].PRECIO_TOTAL_ORIG = 100
    /\ df.filas[2].FECHA_DOCUMENTO = <<"-", 2024, 3, 20>>
    /\ df.filas[2].CANTIDAD = 3
    /\ df.filas[2].PRECIO_TOTAL_ORIG = 50

\* The selections of the scenario, with the month named mes, have been
\* applied and the aggregation has run.
Seleccionado(mes) ==
    /\ anio_seleccionado = {2024}
    /\ mes_seleccionado = {mes}
    /\ codigo_seleccionado = {}
    /\ clase_seleccionada = {"Minorista"}
    /\ pc \in {"agrupado", "resumido", "por_articulo", "exportar"}

\* The outcome of the scenario with the month named mes.
Resultado(mes) ==
    /\ { df_original[i].MES : i \in 1..Len(df_original) } = {mes}
    /\ Seleccionado(mes) =>
          /\ Len(df_agrupado) = 1
          /\ df_agrupado[1].CODIGO_PRODUCTO = "P1"
          /\ df_agrupado[1].ANIO = 2024
          /\ df_agrupado[1].MES_NUM = 3
          /\ df_agrupado[1].MES = mes
          /\ Len(df_final) = 1
          /\ df_final[1].CODIGO_PRODUCTO = "P1"
          /\ df_final[1].CANTIDAD = 5
          /\ df_final[1].PRECIO_TOTAL_ORIG = 150
          /\ (pc # "agrupado" =>
                 /\ resumen.total_ventas = 150
                 /\ resumen.items = 1
                 /\ resumen.fila_max = df_final[1]
                 /\ resumen.fila_min = df_final[1])

C16_EndToEndMarch ==
    Escenario => Resultado("March")

\* ------------------------------------------------------------------------
\* C16, amended: for the same two input rows, in a run where the locale
\* es_ES.UTF-8 could not be set the month is named March and the
\* selections years={2024}, months={March}, codes={}, classes={Minorista}
\* give exactly one aggregator row P1 / 2024 / month 3 with quantity 5 and
\* total 150, and the summary total_sales=150, item_count=1, max_row =
\* min_row = that row; in a run where es_ES.UTF-8 was set the month is
\* named marzo, March is not among the months offered, and the same
\* outcome follows from months={marzo}.
\* ------------------------------------------------------------------------
C16_EndToEndLocale ==
    Escenario =>
        IF locale = "es_ES.UTF-8" THEN Resultado("marzo") ELSE Resultado("March")

\* The scenario has run to the summary under es_ES.UTF-8 with the months
\* selection {marzo}.
C16_Witness ==
    /\ Escenario
    /\ locale = "es_ES.UTF-8"
    /\ pc = "resumido"
    /\ anio_seleccionado = {2024}
    /\ mes_seleccionado = {"marzo"}
    /\ clase_seleccionada = {"Minorista"}
    /\ resumen.total_ventas = 150

====
